---- MODULE Spec2Model ----
(***************************************************************************)
(* A model of the wave-simulation core of asdl_tools:                      *)
(*   - BaseWave            (src/waves/base.py)                             *)
(*   - Wavepacket          (src/waves/wavepacket.py)                       *)
(*   - complex_wave        (src/waves/base.py)                             *)
(*   - Surface, Membrane   (src/waves/surface.py, src/waves/membrane.py)   *)
(*   - wavepacket          (src/wavepacket.py)                             *)
(*   - Task                (src/asdl/ni/__init__.py)                       *)
(*                                                                         *)
(* Python values are tagged tuples: the first element names the Python     *)
(* type, so values of different types can always be compared.  Numbers are *)
(* exact rationals <<"num", n, d>> (d > 0, lowest terms); the rounding of  *)
(* binary floating point is not modelled.                                  *)
(***************************************************************************)
EXTENDS Integers, Sequences, FiniteSets, TLC

VARIABLES
  cls,   \* the class of the object under observation
  bw,    \* the fields of a BaseWave-derived object
  wp,    \* the fields of a waves.wavepacket.Wavepacket
  lw,    \* the fields of a stand-alone wavepacket (src/wavepacket.py)
  call,  \* the last call of a module-level function: arguments and result
  sf,    \* the fields of a Surface, and the Wavepackets it holds
  caller,  \* the Wavepacket the caller of add_source holds
  tk,    \* the calls a Task made on its two NI-DAQmx tasks
  ret    \* the last operation called and how it ended

vars == <<cls, bw, wp, lw, call, sf, caller, tk, ret>>

(***************************************************************************)
(* Bounds                                                                  *)
(***************************************************************************)
\* sampling frequencies offered to the setters: 0..MaxFs
MaxFs == 2
\* spatial steps offered to the setters: 1..MaxDx
MaxDx == 1
\* scalar time limits offered to the setters: 1..MaxT
MaxT == 1
\* scalar space limits offered to the setters: 1..MaxL
MaxL == 1
\* the explicit time pairs offered to the setters: (PairLow, 0..MaxT)
PairLow == 1
\* complex_wave: frequencies -1..MaxF, positions -1..MaxX, instants
\* 0..MaxTs, and vectors xs and ts of 1..MaxPts points
MaxF == 2
MaxX == 2
MaxTs == 1
MaxPts == 2
\* the reflection classifiers: half-widths 1..MaxD, coordinates -MaxP..MaxP
MaxD == 2
MaxP == 3
\* the surface: side SurfaceSize in x and in y, reflection depths
\* 0..MaxDepth, at most MaxSources successful add_source calls
SurfaceSize == 2
MaxDepth == 2
MaxSources == 1

(***************************************************************************)
(* Python values                                                           *)
(***************************************************************************)
None == <<"None">>
\* a value that is neither None, a number, a tuple, an iterable of the
\* expected kind nor callable to good effect: e.g. the string 'abc'
Str == <<"str">>
Num(n, d) == <<"num", n, d>>
IntVal(i) == Num(i, 1)
Tuple(a, b) == <<"tuple", a, b>>
Fn(name) == <<"fn", name>>
List(seq) == <<"list", seq>>
Array(seq) == <<"arr", seq>>
\* an attribute the object does not have (never assigned)
Absent == <<"absent">>

IsNone(v) == v = None
IsNumber(v) == v[1] = "num"      \* isinstance(v, numbers.Number)
IsTuple(v) == v[1] = "tuple"     \* isinstance(v, tuple)

Abs(i) == IF i < 0 THEN -i ELSE i

RECURSIVE GCD(_, _)
GCD(a, b) == IF b = 0 THEN a ELSE GCD(b, a % b)

\* the rational n/d in lowest terms with a positive denominator (d # 0)
Norm(n, d) ==
  LET g == GCD(Abs(n), Abs(d))
      s == IF d < 0 THEN -1 ELSE 1
  IN  Num((s * n) \div g, (s * d) \div g)

Add(a, b) == Norm(a[2] * b[3] + b[2] * a[3], a[3] * b[3])
Sub(a, b) == Norm(a[2] * b[3] - b[2] * a[3], a[3] * b[3])
Div(a, b) == Norm(a[2] * b[3], a[3] * b[2])
Lt(a, b) == a[2] * b[3] < b[2] * a[3]
IsZero(a) == a[2] = 0

FsInputs == {None, Str} \cup {IntVal(i) : i \in 0..MaxFs}
DxInputs == {None, Str} \cup {IntVal(i) : i \in 1..MaxDx}
TimeInputs ==
  {None, Str} \cup {IntVal(i) : i \in 1..MaxT}
              \cup {Tuple(IntVal(PairLow), IntVal(b)) : b \in 0..MaxT}
SpaceInputs == {None} \cup {IntVal(i) : i \in 1..MaxL}

\* numpy.arange(start, stop, step) for step > 0: start + i*step while < stop
RECURSIVE ArangeFrom(_, _, _)
ArangeFrom(cur, stop, step) ==
  IF Lt(cur, stop) THEN <<cur>> \o ArangeFrom(Add(cur, step), stop, step)
  ELSE <<>>

Arange(start, stop, step) == ArangeFrom(start, stop, step)

\* F(v), with v evaluated once, before F is applied
Let(v, F(_)) == CHOOSE r \in {F(x) : x \in {v}} : TRUE

\* how an operation ended: the exception raised, or "ok"
Ret(op, exc, fresh) == [op |-> op, exc |-> exc, fresh |-> fresh]

(***************************************************************************)
(* BaseWave (src/waves/base.py)                                            *)
(***************************************************************************)
\* BaseWave.__init__: it creates _data and _steps, and neither _tlim nor
\* _xlim
BaseWaveInit ==
  [steps |-> <<None, None, None>>,
   tlim |-> Absent,
   xlim |-> Absent,
   data |-> [domain |-> None, time |-> None, results |-> None]]

\* BaseWave._set_steps: the new _steps and the exception raised
SetSteps(steps, step, value) ==
  IF IsNone(value) THEN
    [exc |-> "ok",
     steps |-> IF step = "space" THEN <<steps[1], steps[2], None>>
               ELSE <<None, None, steps[3]>>]
  ELSE IF IsNumber(value) THEN
    IF step = "freq" THEN
      \* _steps[0] is assigned before 1/value is computed
      IF IsZero(value)
      THEN [exc |-> "ZeroDivisionError", steps |-> <<value, steps[2], steps[3]>>]
      ELSE [exc |-> "ok", steps |-> <<value, Div(IntVal(1), value), steps[3]>>]
    ELSE IF step = "time" THEN
      \* 1/value is computed before _steps[0] is assigned
      IF IsZero(value)
      THEN [exc |-> "ZeroDivisionError", steps |-> steps]
      ELSE [exc |-> "ok", steps |-> <<Div(IntVal(1), value), value, steps[3]>>]
    ELSE [exc |-> "ok", steps |-> <<steps[1], steps[2], value>>]
  ELSE [exc |-> "TypeError", steps |-> steps]

\* BaseWave._set_tuple_value with the number predicate and the identity
\* (time_boundary): the new field value and the exception raised
SetTupleValue(old, value) ==
  LET pair == IF IsTuple(value) THEN value ELSE Tuple(IntVal(0), value)
  IN  IF IsNone(value) THEN [exc |-> "ok", val |-> None]
      ELSE IF IsNumber(pair[2]) /\ IsNumber(pair[3])
           THEN [exc |-> "ok", val |-> Tuple(pair[2], pair[3])]
           ELSE [exc |-> "TypeError", val |-> old]

\* BaseWave._get_time_or_space on (step, limits, cached values): the
\* exception raised, the new cache, the new limits, and whether the
\* sequence was regenerated
Discretize(step, lims, values) ==
  IF IsNone(step) THEN
    [exc |-> "ValueError", values |-> values, lims |-> lims, fresh |-> FALSE]
  ELSE IF lims = Absent THEN
    \* self.__dict__[lims] on a key that is not there
    [exc |-> "KeyError", values |-> values, lims |-> lims, fresh |-> FALSE]
  ELSE IF IsNone(lims) THEN
    [exc |-> "ValueError", values |-> values, lims |-> lims, fresh |-> FALSE]
  ELSE
    LET v1 == lims[2]
        v2 == lims[3]
        new == Arange(v1, Add(v2, Div(step, IntVal(4))), step)
    IN  IF ~IsNone(values) /\ Len(values[2]) < 2 THEN
          \* values[1] - values[0] on a sequence of fewer than two points
          [exc |-> "IndexError", values |-> values, lims |-> lims,
           fresh |-> FALSE]
        ELSE IF /\ ~IsNone(values)
                /\ step = Sub(values[2][2], values[2][1])
                /\ values[2][1] = v1
                /\ values[2][Len(values[2])] = v2
        THEN [exc |-> "ok", values |-> values, lims |-> lims, fresh |-> FALSE]
        ELSE IF new = <<>> THEN
          \* the empty sequence is stored, then [0] of it is read
          [exc |-> "IndexError", values |-> Array(new), lims |-> lims,
           fresh |-> TRUE]
        ELSE [exc |-> "ok", values |-> Array(new),
              lims |-> Tuple(new[1], new[Len(new)]), fresh |-> TRUE]

GetTimeOrSpace(self, flag) ==
  LET step == IF flag = "time" THEN self.steps[2] ELSE self.steps[3]
      lims == IF flag = "time" THEN self.tlim ELSE self.xlim
      field == IF flag = "time" THEN "time" ELSE "domain"
      r == Discretize(step, lims, self.data[field])
  IN  [exc |-> r.exc, fresh |-> r.fresh,
       self |-> [self EXCEPT !.data[field] = r.values,
                             !.tlim = IF flag = "time" THEN r.lims ELSE @,
                             !.xlim = IF flag = "space" THEN r.lims ELSE @]]

\* BaseWave.purge_data
BW_PurgeData(self) ==
  [self EXCEPT !.data = [domain |-> None, time |-> None, results |-> None]]

\* BaseWave.fs setter
BW_SetFs(self, value) ==
  LET r == SetSteps(self.steps, "freq", value)
  IN  [exc |-> r.exc, self |-> [self EXCEPT !.steps = r.steps]]

\* BaseWave.dt setter: its call of _set_steps names the undefined err_mesg,
\* so _set_steps (step "time") is never entered
BW_SetDt(self, value) == [exc |-> "NameError", self |-> self]

\* BaseWave.dx setter
BW_SetDx(self, value) ==
  LET r == SetSteps(self.steps, "space", value)
  IN  [exc |-> r.exc, self |-> [self EXCEPT !.steps = r.steps]]

\* BaseWave.time_boundary setter
BW_SetTimeBoundary(self, T) ==
  LET r == SetTupleValue(self.tlim, T)
  IN  [exc |-> r.exc, self |-> [self EXCEPT !.tlim = r.val]]

\* the space_boundary setter of a one-dimensional derived class
BW_SetSpaceBoundary(self, L) ==
  LET r == SetTupleValue(self.xlim, L)
  IN  [exc |-> r.exc, self |-> [self EXCEPT !.xlim = r.val]]

IsBase == cls = "BaseWave"
BaseFrame == UNCHANGED <<cls, wp, lw, call, sf, caller, tk>>

\* obj.fs = value
BW_set_fs ==
  /\ IsBase
  /\ \E value \in FsInputs :
       LET r == BW_SetFs(bw, value)
       IN  bw' = r.self /\ ret' = Ret("set_fs", r.exc, FALSE)
  /\ BaseFrame

\* obj.dt = value
BW_set_dt ==
  /\ IsBase
  /\ \E value \in FsInputs :
       LET r == BW_SetDt(bw, value)
       IN  bw' = r.self /\ ret' = Ret("set_dt", r.exc, FALSE)
  /\ BaseFrame

\* obj.dx = value
BW_set_dx ==
  /\ IsBase
  /\ \E value \in DxInputs :
       LET r == BW_SetDx(bw, value)
       IN  bw' = r.self /\ ret' = Ret("set_dx", r.exc, FALSE)
  /\ BaseFrame

\* obj.time_boundary = T
BW_set_time_boundary ==
  /\ IsBase
  /\ \E T \in TimeInputs :
       LET r == BW_SetTimeBoundary(bw, T)
       IN  bw' = r.self /\ ret' = Ret("set_time_boundary", r.exc, FALSE)
  /\ BaseFrame

\* obj.space_boundary = L
BW_set_space_boundary ==
  /\ IsBase
  /\ \E L \in SpaceInputs :
       LET r == BW_SetSpaceBoundary(bw, L)
       IN  bw' = r.self /\ ret' = Ret("set_space_boundary", r.exc, FALSE)
  /\ BaseFrame

\* obj._get_time_or_space(flag)
BW_get_time_or_space ==
  /\ IsBase
  /\ \E flag \in {"time", "space"} :
       LET r == GetTimeOrSpace(bw, flag)
       IN  bw' = r.self /\ ret' = Ret(flag, r.exc, r.fresh)
  /\ BaseFrame

\* obj.purge_data()
BW_purge_data ==
  /\ IsBase
  /\ bw' = BW_PurgeData(bw)
  /\ ret' = Ret("purge_data", "ok", FALSE)
  /\ BaseFrame

NextBase ==
  \/ BW_set_fs
  \/ BW_set_dt
  \/ BW_set_dx
  \/ BW_set_time_boundary
  \/ BW_set_space_boundary
  \/ BW_get_time_or_space
  \/ BW_purge_data

(***************************************************************************)
(* Wavepacket (src/waves/wavepacket.py)                                    *)
(***************************************************************************)
\* the complex matrix eval() computes on the grid ts x xs
Wave(ts, xs) == <<"wave", ts, xs>>

IsCallable(v) == v[1] = "fn"
IsIterable(v) == v[1] \in {"list", "str"}
\* the elements a for loop draws from an iterable: a string yields its
\* characters, which are strings
Elements(v) == IF v[1] = "list" THEN v[2] ELSE <<Str>>

\* the elements appended before the loop of a list setter meets an element
\* that is not of the type named by tag, or ends
RECURSIVE GoodPrefix(_, _)
GoodPrefix(seq, tag) ==
  IF seq = <<>> \/ Head(seq)[1] # tag THEN <<>>
  ELSE <<Head(seq)>> \o GoodPrefix(Tail(seq), tag)

\* Wavepacket.__init__ called with a dispersion function and the defaults
WavepacketInit ==
  [dt |-> None,
   freq_spectrum |-> <<>>,
   dx |-> None,
   envelope_func |-> None,
   data |-> [xs |-> None, ts |-> None, ys |-> None],
   ts |-> None,
   tlim |-> None,
   xs |-> None,
   xlim |-> None,
   disprel |-> <<Fn("d1")>>,
   normalize_flag |-> TRUE]

\* Wavepacket.fs setter
WP_SetFs(self, fs) ==
  IF IsNone(fs) THEN [exc |-> "ok", self |-> [self EXCEPT !.dt = None]]
  ELSE IF ~IsNumber(fs) THEN [exc |-> "TypeError", self |-> self]
  ELSE IF IsZero(fs) THEN [exc |-> "ZeroDivisionError", self |-> self]
  ELSE [exc |-> "ok", self |-> [self EXCEPT !.dt = Div(IntVal(1), fs)]]

\* Wavepacket.domain setter: the limits are never type-checked
WP_SetDomain(self, L) ==
  IF IsNone(L) THEN [self EXCEPT !.xs = None, !.xlim = None]
  ELSE IF ~IsTuple(L)
       THEN [self EXCEPT !.xs = None, !.xlim = Tuple(IntVal(0), L)]
       ELSE [self EXCEPT !.xs = None, !.xlim = Tuple(L[2], L[3])]

\* Wavepacket.time setter: a tuple T is stored as (T[0], [0])
WP_SetTime(self, T) ==
  IF IsNone(T) THEN [self EXCEPT !.ts = None, !.tlim = None]
  ELSE IF ~IsTuple(T)
       THEN [self EXCEPT !.ts = None, !.tlim = Tuple(IntVal(0), T)]
       ELSE [self EXCEPT !.ts = None,
                         !.tlim = Tuple(T[2], List(<<IntVal(0)>>))]

\* a dispersion setter that takes None for the empty list
WP_SetDispersionNoneOk(self, disprels) ==
  LET elems == IF IsIterable(disprels) THEN Elements(disprels)
               ELSE <<disprels>>
      good == GoodPrefix(elems, "fn")
  IN  IF ~IsIterable(disprels) /\ IsNone(disprels)
      THEN [exc |-> "ok", self |-> [self EXCEPT !.disprel = <<>>]]
      ELSE [exc |-> IF good = elems THEN "ok" ELSE "TypeError",
            self |-> [self EXCEPT !.disprel = good]]

\* Wavepacket.dispersion setter
WP_SetDispersion(self, disprels) ==
  LET elems == IF IsIterable(disprels) THEN Elements(disprels)
               ELSE <<disprels>>
      good == GoodPrefix(elems, "fn")
  IN  IF ~IsIterable(disprels) /\ IsNone(disprels)
      THEN [exc |-> "ValueError", self |-> [self EXCEPT !.disprel = <<>>]]
      ELSE [exc |-> IF good = elems THEN "ok" ELSE "TypeError",
            self |-> [self EXCEPT !.disprel = good]]

\* Wavepacket.spectrum setter
WP_SetSpectrum(self, freqs) ==
  LET elems == IF IsIterable(freqs) THEN Elements(freqs) ELSE <<freqs>>
      good == GoodPrefix(elems, "num")
  IN  IF ~IsIterable(freqs) /\ IsNone(freqs)
      THEN [exc |-> "ok", self |-> [self EXCEPT !.freq_spectrum = <<>>]]
      ELSE [exc |-> IF good = elems THEN "ok" ELSE "TypeError",
            self |-> [self EXCEPT !.freq_spectrum = good]]

\* Wavepacket.envelope setter
WP_SetEnvelope(self, func) ==
  IF IsNone(func) THEN [exc |-> "ok", self |-> [self EXCEPT !.envelope_func = None]]
  ELSE IF ~IsCallable(func)
       THEN [exc |-> "ValueError", self |-> [self EXCEPT !.envelope_func = None]]
       ELSE [exc |-> "ok", self |-> [self EXCEPT !.envelope_func = func]]

\* numpy.arange(v1, v2, step) where v2 may not be a number
ArangeChecked(v1, v2, step) ==
  IF IsNumber(v1) /\ IsNumber(v2) /\ IsNumber(step)
  THEN [exc |-> "ok", val |-> Array(Arange(v1, v2, step))]
  ELSE [exc |-> "TypeError", val |-> None]

\* Wavepacket.get_time / get_space on (step, limits, the _ts or _xs
\* attribute, the cached sequence): the exception and the new cache
WP_GetAxis(step, lims, attr, cached) ==
  IF IsNone(step) \/ IsNone(lims) THEN [exc |-> "ValueError", val |-> cached]
  ELSE IF ~IsNone(attr) /\ Len(attr[2]) < 2
  THEN [exc |-> "IndexError", val |-> cached]
  ELSE IF /\ ~IsNone(attr)
          /\ step = Sub(attr[2][2], attr[2][1])
          /\ attr[2][1] = lims[2]
          /\ attr[2][Len(attr[2])] = lims[3]
  THEN [exc |-> "ok", val |-> cached]
  ELSE LET r == ArangeChecked(lims[2], lims[3], step)
       IN  [exc |-> r.exc, val |-> IF r.exc = "ok" THEN r.val ELSE cached]

WP_GetTime(self) ==
  LET r == WP_GetAxis(self.dt, self.tlim, self.ts, self.data.ts)
  IN  [exc |-> r.exc, self |-> [self EXCEPT !.data.ts = r.val]]

WP_GetSpace(self) ==
  LET r == WP_GetAxis(self.dx, self.xlim, self.xs, self.data.xs)
  IN  [exc |-> r.exc, self |-> [self EXCEPT !.data.xs = r.val]]

\* lines 301-321 of Wavepacket.eval, on an object whose two axes have been
\* discretized: the sum over spectrum x dispersion, the normalization and
\* the envelope
WP_Superpose(self) ==
  LET ts == self.data.ts[2]
      xs == self.data.xs[2]
      scalar == self.freq_spectrum = <<>> \/ self.disprel = <<>>
      empty == ts = <<>> \/ xs = <<>>
      data == IF scalar THEN IntVal(0) ELSE Wave(ts, xs)
  IN  IF self.normalize_flag /\ ~scalar /\ empty
      THEN \* numpy.max of a zero-size array
           [exc |-> "ValueError", self |-> self]
      ELSE IF IsCallable(self.envelope_func) /\ xs = <<>>
      THEN \* numpy.vectorize called on a zero-size input
           [exc |-> "ValueError", self |-> self]
      ELSE IF IsCallable(self.envelope_func) /\ scalar
      THEN \* data.shape of the int 0
           [exc |-> "AttributeError", self |-> self]
      ELSE [exc |-> "ok", self |-> [self EXCEPT !.data.ys = data]]

\* Wavepacket.eval
WP_Eval(self) ==
  IF IsNone(self.dt) THEN [exc |-> "ValueError", self |-> self]
  ELSE IF IsNone(self.tlim) THEN [exc |-> "ValueError", self |-> self]
  ELSE
    LET t == WP_GetTime(self)
    IN  IF t.exc # "ok" THEN t
        ELSE IF IsNone(t.self.dx) THEN [exc |-> "ValueError", self |-> t.self]
        ELSE IF IsNone(t.self.xlim) THEN [exc |-> "ValueError", self |-> t.self]
        ELSE LET x == WP_GetSpace(t.self)
             IN  IF x.exc # "ok" THEN x ELSE WP_Superpose(x.self)

\* a getter that evaluates on every call
WP_GetComplexDataAlways(self) ==
  LET r == WP_Eval(self) IN [exc |-> r.exc, self |-> r.self, fresh |-> TRUE]

\* Wavepacket.get_complex_data, which get_data calls: eval() runs when the
\* cached result is None
WP_GetComplexData(self) ==
  IF IsNone(self.data.ys)
  THEN LET r == WP_Eval(self) IN [exc |-> r.exc, self |-> r.self, fresh |-> TRUE]
  ELSE [exc |-> "ok", self |-> self, fresh |-> FALSE]

\* a purge that forgets the result but keeps the two sequences
WP_PurgeDataResultOnly(self) == [self EXCEPT !.data.ys = None]

\* Wavepacket.purge_data
WP_PurgeData(self) ==
  [self EXCEPT !.data = [xs |-> None, ts |-> None, ys |-> None]]

\* Wavepacket.merge: the isinstance test names the undefined `wavepacket`
WP_Merge(self, other) == [exc |-> "NameError", self |-> self]

IsWP == cls = "Wavepacket"
WPFrame == UNCHANGED <<cls, bw, lw, call, sf, caller, tk>>

\* a Wavepacket is driven with unit steps: the grids vary with the limits
WP_FsInputs == {None, Str, IntVal(0), IntVal(1)}
WP_DxInputs == {None, IntVal(1)}
WP_TimeInputs == TimeInputs \ {Str}
DisprelInputs ==
  {None, Str, IntVal(1), Fn("d1"), List(<<>>), List(<<Fn("d1")>>),
   List(<<Fn("d1"), Str>>)}
SpectrumInputs ==
  {None, Str, IntVal(100), List(<<>>), List(<<IntVal(100)>>),
   List(<<IntVal(100), Str>>)}
EnvelopeInputs == {None, Str, Fn("env")}

\* w.fs = fs
WP_set_fs ==
  /\ IsWP
  /\ \E fs \in WP_FsInputs :
       LET r == WP_SetFs(wp, fs)
       IN  wp' = r.self /\ ret' = Ret("set_fs", r.exc, FALSE)
  /\ WPFrame

\* w.dx = dx, a plain attribute
WP_set_dx ==
  /\ IsWP
  /\ \E dx \in WP_DxInputs : wp' = [wp EXCEPT !.dx = dx]
  /\ ret' = Ret("set_dx", "ok", FALSE)
  /\ WPFrame

\* w.domain = L
WP_set_domain ==
  /\ IsWP
  /\ \E L \in SpaceInputs : wp' = WP_SetDomain(wp, L)
  /\ ret' = Ret("set_domain", "ok", FALSE)
  /\ WPFrame

\* w.time = T
WP_set_time ==
  /\ IsWP
  /\ \E T \in WP_TimeInputs : wp' = WP_SetTime(wp, T)
  /\ ret' = Ret("set_time", "ok", FALSE)
  /\ WPFrame

\* w.dispersion = disprels
WP_set_dispersion ==
  /\ IsWP
  /\ \E disprels \in DisprelInputs :
       LET r == WP_SetDispersion(wp, disprels)
       IN  wp' = r.self /\ ret' = Ret("set_dispersion", r.exc, FALSE)
  /\ WPFrame

\* w.spectrum = freqs
WP_set_spectrum ==
  /\ IsWP
  /\ \E freqs \in SpectrumInputs :
       LET r == WP_SetSpectrum(wp, freqs)
       IN  wp' = r.self /\ ret' = Ret("set_spectrum", r.exc, FALSE)
  /\ WPFrame

\* w.envelope = func
WP_set_envelope ==
  /\ IsWP
  /\ \E func \in EnvelopeInputs :
       LET r == WP_SetEnvelope(wp, func)
       IN  wp' = r.self /\ ret' = Ret("set_envelope", r.exc, FALSE)
  /\ WPFrame

\* w.normalize = flag
WP_set_normalize ==
  /\ IsWP
  /\ \E flag \in BOOLEAN : wp' = [wp EXCEPT !.normalize_flag = flag]
  /\ ret' = Ret("set_normalize", "ok", FALSE)
  /\ WPFrame

\* w.eval()
WP_eval ==
  /\ IsWP
  /\ LET r == WP_Eval(wp)
     IN  wp' = r.self /\ ret' = Ret("eval", r.exc, TRUE)
  /\ WPFrame

\* w.get_data()
WP_get_data ==
  /\ IsWP
  /\ LET r == WP_GetComplexData(wp)
     IN  wp' = r.self /\ ret' = Ret("get_data", r.exc, r.fresh)
  /\ WPFrame

\* w.purge_data()
WP_purge_data ==
  /\ IsWP
  /\ wp' = WP_PurgeData(wp)
  /\ ret' = Ret("purge_data", "ok", FALSE)
  /\ WPFrame

\* a second Wavepacket B, with spectrum [50] and dispersion [d2]
OtherWP ==
  [WavepacketInit EXCEPT !.freq_spectrum = <<IntVal(50)>>,
                         !.disprel = <<Fn("d2")>>]

\* w.merge(B)
WP_merge ==
  /\ IsWP
  /\ LET r == WP_Merge(wp, OtherWP)
     IN  wp' = r.self /\ ret' = Ret("merge", r.exc, FALSE)
  /\ WPFrame

NextWP ==
  \/ WP_set_fs
  \/ WP_set_dx
  \/ WP_set_domain
  \/ WP_set_time
  \/ WP_set_dispersion
  \/ WP_set_spectrum
  \/ WP_set_envelope
  \/ WP_set_normalize
  \/ WP_eval
  \/ WP_get_data
  \/ WP_purge_data
  \/ WP_merge

(***************************************************************************)
(* Module-level functions (src/waves/base.py)                              *)
(***************************************************************************)
Mul(a, b) == Norm(a[2] * b[2], a[3] * b[3])
Neg(a) == Num(-a[2], a[3])
Le(a, b) == a[2] * b[3] <= b[2] * a[3]

\* the dispersion functions offered to complex_wave, by name:
\* d1(f) = f/1, d2(f) = f/2 and neg(f) = -f
DispersionNames == {"d1", "d2", "neg"}
Apply(d, f) ==
  CASE d[2] = "d1" -> f
    [] d[2] = "d2" -> Div(f, IntVal(2))
    [] d[2] = "neg" -> Neg(f)

\* a complex number by magnitude and phase, the phase in turns (multiples
\* of 2*pi) and 0 when the magnitude is 0
Complex(mag, turns) == <<"complex", mag, turns>>

\* an entry of complex_wave that is masked when the phase is negative or zero
MaskedEntryStrict(ps) ==
  IF Lt(ps, IntVal(0)) THEN Complex(1, ps) ELSE Complex(0, IntVal(0))

\* (ps <= 0) * np.exp(1j * ps), ps in turns
MaskedEntry(ps) ==
  IF Le(ps, IntVal(0)) THEN Complex(1, ps) ELSE Complex(0, IntVal(0))

\* complex_wave(disprel, freq, xs, ts): one row per instant, one column per
\* position; w and k are kept in turns (the common factor 2*pi left out)
ComplexWave(disprel, freq, xs, ts) ==
  LET w == freq
      k == Apply(disprel, freq)
  IN  [i \in 1..Len(ts) |->
        [j \in 1..Len(xs) |->
          MaskedEntry(Sub(Mul(k, xs[j]), Mul(w, ts[i])))]]

(***************************************************************************)
(* The reflection classifiers (src/waves/surface.py, membrane.py)          *)
(***************************************************************************)
\* new_pos: the images of (x, y) in the edges named by inds, in order
NewPos(Dx, Dy, x, y, inds) ==
  LET two == IntVal(2)
      image(e) ==
        CASE e = "a" -> Tuple(x, Sub(Mul(two, Dy), y))
          [] e = "b" -> Tuple(Sub(Mul(two, Dx), x), y)
          [] e = "c" -> Tuple(x, Sub(Mul(two, Neg(Dy)), y))
          [] e = "d" -> Tuple(Sub(Mul(two, Neg(Dx)), x), y)
  IN  [i \in 1..Len(inds) |-> image(inds[i])]

\* the edges Membrane.__reflect_position reflects (x, y) on
MembraneRegion(Dx, Dy, x, y) ==
  LET mDx == Neg(Dx)
      mDy == Neg(Dy)
  IN  IF Lt(mDx, x) /\ Lt(x, Dx) /\ Lt(mDy, y) /\ Lt(y, Dy)
        THEN <<"a", "b", "c", "d">>
      ELSE IF Lt(Dy, y) /\ Lt(x, mDx) THEN <<"b", "c">>
      ELSE IF Lt(Dy, y) /\ Le(mDx, x) /\ Lt(x, Dx) THEN <<"b", "c", "d">>
      ELSE IF Lt(Dy, y) /\ Le(Dx, x) THEN <<"c", "d">>
      ELSE IF Lt(Dx, x) /\ Le(mDy, y) /\ Le(y, Dy) THEN <<"a", "c", "d">>
      ELSE IF Le(Dx, x) /\ Le(y, Dy) THEN <<"a", "d">>
      ELSE IF Lt(y, mDy) /\ Le(mDx, x) /\ Lt(x, Dx) THEN <<"a", "b", "d">>
      ELSE IF Lt(y, mDy) /\ Lt(x, mDx) THEN <<"a", "b">>
      ELSE IF Lt(x, mDx) /\ Le(mDy, y) /\ Le(y, Dy) THEN <<"a", "b", "c">>
      ELSE <<"error">>

\* Membrane.__reflect_position(pos) on a membrane of half-widths Dx, Dy
MembraneReflectPosition(Dx, Dy, pos) ==
  LET inds == MembraneRegion(Dx, Dy, pos[2], pos[3])
  IN  IF inds = <<"error">> THEN [exc |-> "ValueError", val |-> <<>>]
      ELSE [exc |-> "ok", val |-> NewPos(Dx, Dy, pos[2], pos[3], inds)]

\* the edges Surface._reflect_position reflects (x, y) on, or <<"error">>
\* when no region takes the position
SurfaceRegion(Dx, Dy, x, y) ==
  LET mDx == Neg(Dx)
      mDy == Neg(Dy)
  IN  IF Lt(mDx, x) /\ Lt(x, Dx) /\ Lt(mDy, y) /\ Lt(y, Dy)
        THEN <<"a", "b", "c", "d">>
      ELSE IF Lt(Dy, y) /\ Lt(x, mDx) THEN <<"b", "c">>
      ELSE IF Le(Dy, y) /\ Le(mDx, x) /\ Lt(x, Dx) THEN <<"b", "c", "d">>
      ELSE IF Lt(Dy, y) /\ Le(Dx, x) THEN <<"c", "d">>
      ELSE IF Le(Dx, x) /\ Le(mDy, y) /\ Le(y, Dy) THEN <<"a", "c", "d">>
      ELSE IF Le(Dx, x) /\ Le(y, mDy) THEN <<"a", "d">>
      ELSE IF Le(y, mDy) /\ Le(mDx, x) /\ Lt(x, Dx) THEN <<"a", "b", "d">>
      ELSE IF Lt(y, mDy) /\ Lt(x, mDx) THEN <<"a", "b">>
      ELSE IF Le(x, mDx) /\ Le(mDy, y) /\ Le(y, Dy) THEN <<"a", "b", "c">>
      ELSE <<"error">>

\* the condition Surface._reflect_position tests for region k, taken on
\* its own
RegionCondition(k, Dx, Dy, x, y) ==
  LET mDx == Neg(Dx)
      mDy == Neg(Dy)
  IN  CASE k = 0 -> Lt(mDx, x) /\ Lt(x, Dx) /\ Lt(mDy, y) /\ Lt(y, Dy)
        [] k = 1 -> Lt(Dy, y) /\ Lt(x, mDx)
        [] k = 2 -> Le(Dy, y) /\ Le(mDx, x) /\ Lt(x, Dx)
        [] k = 3 -> Lt(Dy, y) /\ Le(Dx, x)
        [] k = 4 -> Le(Dx, x) /\ Le(mDy, y) /\ Le(y, Dy)
        [] k = 5 -> Le(Dx, x) /\ Le(y, mDy)
        [] k = 6 -> Le(y, mDy) /\ Le(mDx, x) /\ Lt(x, Dx)
        [] k = 7 -> Lt(y, mDy) /\ Lt(x, mDx)
        [] k = 8 -> Le(x, mDx) /\ Le(mDy, y) /\ Le(y, Dy)

\* a classifier that reflects every position on all four edges
ReflectPositionAllEdges(Dx, Dy, pos) ==
  [exc |-> "ok",
   val |-> NewPos(Dx, Dy, pos[2], pos[3], <<"a", "b", "c", "d">>)]

\* a classifier that leaves the edge lines to no region
ReflectPositionOpenEdges(Dx, Dy, pos) == MembraneReflectPosition(Dx, Dy, pos)

\* Surface._reflect_position(pos) on a surface of half-widths Dx, Dy
ReflectPosition(Dx, Dy, pos) ==
  LET inds == SurfaceRegion(Dx, Dy, pos[2], pos[3])
  IN  IF inds = <<"error">> THEN [exc |-> "ValueError", val |-> <<>>]
      ELSE [exc |-> "ok", val |-> NewPos(Dx, Dy, pos[2], pos[3], inds)]

\* the vectors of 1..MaxPts numbers drawn from S
Vectors(S) == UNION {[1..n -> S] : n \in 1..MaxPts}

NoCall == [fn |-> "none", args |-> <<>>, out |-> <<>>]
IsFunctions == cls = "functions"
FnFrame == UNCHANGED <<cls, bw, wp, lw, sf, caller, tk>>

\* the argument lists offered to complex_wave
ComplexWaveInputs ==
  {<<Fn(d), IntVal(f), xs, ts>> :
     d \in DispersionNames, f \in -1..MaxF,
     xs \in Vectors({IntVal(x) : x \in -1..MaxX}),
     ts \in Vectors({IntVal(t) : t \in 0..MaxTs})}

\* the argument lists offered to the two classifiers: Dx, Dy, pos
ReflectInputs ==
  {<<IntVal(Dx), IntVal(Dy), Tuple(IntVal(x), IntVal(y))>> :
     Dx \in 1..MaxD, Dy \in 1..MaxD, x \in -MaxP..MaxP, y \in -MaxP..MaxP}

\* the calls that wait to be made
PendingCalls ==
  {[fn |-> "complex_wave", args |-> a, out |-> <<>>] :
     a \in ComplexWaveInputs}
  \cup {[fn |-> f, args |-> a, out |-> <<>>] :
          f \in {"Surface._reflect_position",
                  "Membrane.__reflect_position"},
          a \in ReflectInputs}

\* us = complex_wave(d, f, xs, ts)
CW_complex_wave ==
  /\ IsFunctions
  /\ call.fn = "complex_wave"
  /\ ret.op = "init"
  /\ call' = [call EXCEPT !.out = ComplexWave(call.args[1], call.args[2],
                                              call.args[3], call.args[4])]
  /\ ret' = Ret("complex_wave", "ok", FALSE)
  /\ FnFrame

\* surface._reflect_position(pos)
SU_reflect_position ==
  /\ IsFunctions
  /\ call.fn = "Surface._reflect_position"
  /\ ret.op = "init"
  /\ LET r == ReflectPosition(call.args[1], call.args[2], call.args[3])
     IN  /\ call' = [call EXCEPT !.out = r.val]
         /\ ret' = Ret("reflect_position", r.exc, FALSE)
  /\ FnFrame

\* membrane.__reflect_position(pos)
MB_reflect_position ==
  /\ IsFunctions
  /\ call.fn = "Membrane.__reflect_position"
  /\ ret.op = "init"
  /\ LET r == MembraneReflectPosition(call.args[1], call.args[2],
                                      call.args[3])
     IN  /\ call' = [call EXCEPT !.out = r.val]
         /\ ret' = Ret("reflect_position", r.exc, FALSE)
  /\ FnFrame

(***************************************************************************)
(* Surface (src/waves/surface.py)                                          *)
(*                                                                         *)
(* The sources of a Surface are Wavepackets derived from BaseWave (they    *)
(* have space_boundary, time_boundary, x_vect and data).  That class is    *)
(* not among the sources; its objects are BaseWave objects with one more   *)
(* field, conf, that stands for spectrum and dispersion: "good" evaluates, *)
(* "bad" holds a dispersion function that raises when called.              *)
(***************************************************************************)
StrVal(str) == <<"string", str>>
Tuple0 == <<"tuple0">>
Tuple1(a) == <<"tuple1", a>>
Tuple3(a, b, c) == <<"tuple3", a, b, c>>
\* isinstance(v, tuple), for a tuple of any length
IsAnyTuple(v) == v[1] \in {"tuple0", "tuple1", "tuple", "tuple3"}
TupleLen(v) ==
  CASE v[1] = "tuple0" -> 0
    [] v[1] = "tuple1" -> 1
    [] v[1] = "tuple" -> 2
    [] v[1] = "tuple3" -> 3

\* the square root of the rational q, kept as an expression
Sqrt(q) == <<"sqrt", q>>
\* d + pad for a square root d and a rational pad, kept as an expression
Padded(d, pad) == <<"padded", d, pad>>
\* the last point of arange(lo, hi + step/4, step), kept as an expression;
\* discretizing again up to that point gives the same sequence
Snapped(hi) == IF hi[1] = "snapped" THEN hi ELSE <<"snapped", hi>>
\* arange(lo, hi + step/4, step) for limits that are expressions
RadialAxis(lo, hi, step) == <<"axis", lo, Snapped(hi), step>>

RECURSIVE Reverse(_)
Reverse(seq) ==
  IF seq = <<>> THEN <<>> ELSE Reverse(Tail(seq)) \o <<Head(seq)>>

\* flip_and_hstack(np.arange(0, L, dx)): the points -u[n..2], u[1..n]
HalfAxes(L, dx) ==
  LET u == Arange(IntVal(0), L, dx)
      neg == [i \in 1..Len(u) |-> Neg(u[i])]
  IN  IF u = <<>> THEN <<>> ELSE Reverse(Tail(neg)) \o u

\* a Wavepacket as its caller builds it: nothing set but spectrum and
\* dispersion
SourceInit(conf) ==
  [steps |-> <<None, None, None>>,
   tlim |-> None,
   xlim |-> None,
   data |-> [domain |-> None, time |-> None, results |-> None],
   conf |-> conf]

\* Surface.__init__(fs, dx, size, time, None, normalize, boundary) for
\* positive numbers fs and dx, a pair of positive numbers size, a time
\* that is a number or a pair of numbers, and a valid boundary
SurfaceNew(fs, dx, size, time, normalize, boundary) ==
  LET steps == SetSteps(SetSteps(<<None, None, None>>, "freq", fs).steps,
                        "space", dx).steps
      Lx == Div(size[2], IntVal(2))
      Ly == Div(size[3], IntVal(2))
      t == Discretize(steps[2], SetTupleValue(None, time).val, None)
  IN  [steps |-> steps,
       tlim |-> t.lims,
       xylims |-> Tuple(Tuple(Neg(Lx), Lx), Tuple(Neg(Ly), Ly)),
       boundary |-> boundary,
       normalize_flag |-> normalize,
       data |-> [domain |-> Tuple(HalfAxes(Lx, dx), HalfAxes(Ly, dx)),
                 time |-> t.values,
                 results |-> None],
       sources |-> <<>>,
       reflected |-> <<>>,
       objs |-> <<>>]

\* Surface(fs = 1, dx = 1, size = (SurfaceSize, SurfaceSize), time = 1,
\* boundary = boundary)
SurfaceInit(boundary) ==
  SurfaceNew(IntVal(1), IntVal(1),
             Tuple(IntVal(SurfaceSize), IntVal(SurfaceSize)), IntVal(1),
             TRUE, boundary)

\* the shape of the array eval() fills: y, x and time samples
Shape(self) ==
  <<Len(self.data.domain[3]), Len(self.data.domain[2]),
    Len(self.data.time[2])>>

\* a reference to the Wavepacket object id
Ref(id) == <<"ref", id>>
\* isinstance(v, wp.Wavepacket)
IsRef(v) == v[1] = "ref"

\* the object behind a reference: 0 is the caller's Wavepacket, i > 0 the
\* i-th copy the surface made
Deref(self, w, id) == IF id = 0 THEN w ELSE self.objs[id]
\* the surface and the caller's Wavepacket after the object id is assigned
Store(self, w, id, obj) ==
  IF id = 0 THEN [self |-> self, w |-> obj]
  ELSE [self |-> [self EXCEPT !.objs[id] = obj], w |-> w]

\* the squares of the distances from pos to the nodes of the grid, row by
\* row
DistSq(self, pos) ==
  LET xs == self.data.domain[2]
      ys == self.data.domain[3]
      sq(a) == Mul(a, a)
  IN  [j \in 1..Len(ys) |->
        [i \in 1..Len(xs) |->
          Add(sq(Sub(xs[i], pos[2])), sq(Sub(ys[j], pos[3])))]]

\* the entries of a matrix
Entries(m) == {m[j][i] : j \in 1..Len(m), i \in 1..Len(m[1])}
MinOf(S) == CHOOSE a \in S : \A b \in S : Le(a, b)
MaxOf(S) == CHOOSE a \in S : \A b \in S : Le(b, a)

\* a copy that is the object itself
DeepCopyShared(self, w, id) == [self |-> self, id |-> id]
\* copy.deepcopy(source): a new object with the fields of the object id
DeepCopy(self, w, id) ==
  [self |-> [self EXCEPT !.objs = Append(@, Deref(self, w, id))],
   id |-> Len(self.objs) + 1]

\* the limits _add_source_to_list gives the copy of a source at pos: the
\* least (0 inside the grid) and the greatest distance to a node, padded
SourceLimits(self, pos) ==
  LET xs == self.data.domain[2]
      ys == self.data.domain[3]
      inside == /\ Le(xs[1], pos[2]) /\ Le(pos[2], xs[Len(xs)])
                /\ Le(ys[1], pos[3]) /\ Le(pos[3], ys[Len(ys)])
  IN  Let(Entries(DistSq(self, pos)), LAMBDA ds :
        Tuple(IF inside THEN IntVal(0) ELSE Sqrt(MinOf(ds)),
              Padded(Sqrt(MaxOf(ds)), Div(self.steps[3], IntVal(4)))))

\* a reconfiguration that pads the upper time limit by a whole step
ReconfiguredStepPad(self, obj, pos) ==
  Let(BW_PurgeData(obj), LAMBDA o1 :
  Let(BW_SetDx(o1, self.steps[3]).self, LAMBDA o2 :
  Let(BW_SetFs(o2, self.steps[1]).self, LAMBDA o3 :
  Let([o3 EXCEPT !.xlim = SourceLimits(self, pos)], LAMBDA o4 :
    BW_SetTimeBoundary(
      o4, Tuple(self.tlim[2], Add(self.tlim[3], self.steps[2]))).self))))
\* lines 206-219 of _add_source_to_list on the copy obj
Reconfigured(self, obj, pos) ==
  Let(BW_PurgeData(obj), LAMBDA o1 :
  Let(BW_SetDx(o1, self.steps[3]).self, LAMBDA o2 :
  Let(BW_SetFs(o2, self.steps[1]).self, LAMBDA o3 :
  Let([o3 EXCEPT !.xlim = SourceLimits(self, pos)], LAMBDA o4 :
    BW_SetTimeBoundary(
      o4, Tuple(self.tlim[2],
                Add(self.tlim[3], Div(self.steps[2], IntVal(4))))).self))))

\* Surface._add_source_to_list(source, pos, reflected), source the object
\* id: the surface and the caller's Wavepacket afterwards
AddSourceToList(self, w, id, pos, reflected) ==
  Let(DeepCopy(self, w, id), LAMBDA c :
  Let(Store(c.self, w, c.id, Reconfigured(self, Deref(c.self, w, c.id), pos)),
      LAMBDA st :
  Let([src |-> c.id, pos |-> pos,
       dist |-> Let(DistSq(self, pos), LAMBDA d2 :
                  [j \in 1..Len(d2) |->
                    [i \in 1..Len(d2[j]) |-> Sqrt(d2[j][i])]])],
      LAMBDA entry :
    [self |-> IF reflected
              THEN [st.self EXCEPT !.reflected = Append(@, entry)]
              ELSE [st.self EXCEPT !.sources = Append(@, entry)],
     w |-> st.w])))

\* the images of every position of the list, in order, or the exception
\* the classifier raises
RECURSIVE ReflectAll(_, _, _)
ReflectAll(Dx, Dy, ps) ==
  IF ps = <<>> THEN [exc |-> "ok", val |-> <<>>]
  ELSE LET r == ReflectPosition(Dx, Dy, Head(ps))
       IN  IF r.exc # "ok" THEN r
           ELSE \* rest ranges over one value: the images of the tail
                CHOOSE all \in
                  {IF rest.exc # "ok" THEN rest
                   ELSE [exc |-> "ok", val |-> r.val \o rest.val] :
                     rest \in {ReflectAll(Dx, Dy, Tail(ps))}} : TRUE

\* the loop `for k in range(0, n - 1)` of add_source with k rounds left:
\* tmp1 is the last generation and acc the positions gathered so far
RECURSIVE Generations(_, _, _, _, _)
Generations(Dx, Dy, tmp1, acc, k) ==
  IF k <= 0 THEN [exc |-> "ok", val |-> acc]
  ELSE Let(ReflectAll(Dx, Dy, tmp1), LAMBDA tmp2 :
         IF tmp2.exc # "ok" THEN tmp2
         ELSE Let(acc \o tmp2.val, LAMBDA acc2 :
                Generations(Dx, Dy, tmp2.val, acc2, k - 1)))

\* the positions add_source reflects pos to under the boundary condition
ReflectedPositions(self, pos) ==
  LET Dx == self.xylims[2][3]
      Dy == self.xylims[3][3]
  IN  Let(ReflectPosition(Dx, Dy, pos), LAMBDA first :
        IF first.exc # "ok" THEN first
        ELSE IF IsNumber(self.boundary)
             THEN Generations(Dx, Dy, first.val, first.val,
                              self.boundary[2] - 1)
             ELSE first)

\* the loop `for p in reflected_positions` of add_source
RECURSIVE AddReflected(_, _, _, _)
AddReflected(self, w, id, ps) ==
  IF ps = <<>> THEN [self |-> self, w |-> w]
  ELSE \* st ranges over one value: the state after this iteration
       CHOOSE fin \in
         {AddReflected(st.self, st.w, id, Tail(ps)) :
            st \in {AddSourceToList(self, w, id, Head(ps), TRUE)}} : TRUE

\* Surface.add_source(source, pos): source is a reference to a Wavepacket
\* or a value that is no Wavepacket
AddSource(self, w, source, pos) ==
  LET raise(e) == [exc |-> e, self |-> self, w |-> w]
  IN  IF ~IsRef(source) THEN raise("TypeError")
      ELSE IF ~IsAnyTuple(pos) THEN raise("TypeError")
      ELSE IF TupleLen(pos) = 0 THEN raise("IndexError")
      ELSE IF ~IsNumber(pos[2]) THEN raise("TypeError")
      ELSE IF TupleLen(pos) = 1 THEN raise("IndexError")
      ELSE IF ~IsNumber(pos[3]) THEN raise("TypeError")
      ELSE
        Let(AddSourceToList(self, w, source[2], pos, FALSE), LAMBDA st :
          IF self.boundary = StrVal("transparent")
          THEN [exc |-> "ok", self |-> st.self, w |-> st.w]
          ELSE IF TupleLen(pos) # 2
          THEN \* x, y = pos
               [exc |-> "ValueError", self |-> st.self, w |-> st.w]
          ELSE Let(ReflectedPositions(self, pos), LAMBDA ps :
                 IF ps.exc # "ok"
                 THEN [exc |-> ps.exc, self |-> st.self, w |-> st.w]
                 ELSE Let(AddReflected(st.self, st.w, source[2], ps.val),
                          LAMBDA fin :
                        [exc |-> "ok", self |-> fin.self, w |-> fin.w])))

\* Surface.boundary_condition setter
SetBoundaryCondition(self, value) ==
  IF value \in {StrVal("transparent"), StrVal("free")} \/ IsNumber(value)
  THEN [exc |-> "ok", self |-> [self EXCEPT !.boundary = value]]
  ELSE [exc |-> "TypeError", self |-> self]

\* eval() of a source Wavepacket: both axes are discretized, then the
\* waves are summed, which calls the dispersion functions
SourceEval(obj) ==
  IF IsNone(obj.steps[1]) \/ IsNone(obj.steps[3])
     \/ IsNone(obj.tlim) \/ IsNone(obj.xlim)
  THEN [exc |-> "ValueError", obj |-> obj]
  ELSE
    Let(GetTimeOrSpace(obj, "time"), LAMBDA t :
      IF t.exc # "ok" THEN [exc |-> t.exc, obj |-> t.self]
      ELSE
        Let([t.self EXCEPT
               !.data.domain = RadialAxis(obj.xlim[2], obj.xlim[3],
                                          obj.steps[3]),
               !.xlim = Tuple(obj.xlim[2], Snapped(obj.xlim[3]))],
            LAMBDA o1 :
          IF obj.conf = "bad"
          THEN [exc |-> "ZeroDivisionError", obj |-> o1]
          ELSE [exc |-> "ok",
                obj |-> [o1 EXCEPT !.data.results =
                           <<"wave", obj.conf, o1.data.time,
                             o1.data.domain>>]]))

\* the displacement field: the contributions that were added to the zero
\* array, in order, and whether the sum was divided by its peak
Field(terms, normalized) == <<"field", terms, normalized>>

\* the loop of Surface.eval over the entries left, terms the contributions
\* added to data so far
RECURSIVE EvalSources(_, _, _, _)
EvalSources(self, w, entries, terms) ==
  IF entries = <<>>
  THEN [exc |-> "ok", self |-> self, w |-> w, terms |-> terms]
  ELSE
    LET e == Head(entries)
        r == SourceEval(Deref(self, w, e.src))
        failed == Store(self, w, e.src, r.obj)
        term == <<e.dist, r.obj.data.domain, r.obj.data.results>>
    IN  IF r.exc # "ok"
        THEN [exc |-> r.exc, self |-> failed.self, w |-> failed.w,
              terms |-> terms]
        ELSE \* st and ts range over one value each: the state and the
             \* contributions after this iteration
             CHOOSE fin \in
               {EvalSources(st.self, st.w, Tail(entries), ts) :
                  st \in {Store(self, w, e.src, BW_PurgeData(r.obj))},
                  ts \in {Append(terms, term)}} : TRUE

\* an eval() that adds to the previous results instead of to zeros
SurfaceEvalAccumulating(self, w) ==
  LET old == IF IsNone(self.data.results) THEN <<>>
             ELSE self.data.results[2]
  IN  Let(EvalSources(self, w, self.sources \o self.reflected, old),
          LAMBDA r :
        IF r.exc # "ok" THEN [exc |-> r.exc, self |-> r.self, w |-> r.w]
        ELSE [exc |-> "ok",
              self |-> [r.self EXCEPT !.data.results =
                          Field(r.terms,
                                self.normalize_flag /\ r.terms # <<>>)],
              w |-> r.w])
\* an eval() in which each contribution replaces the array instead of being
\* added to it
SurfaceEvalLastOnly(self, w) ==
  Let(EvalSources(self, w, self.sources \o self.reflected, <<>>),
      LAMBDA r :
    IF r.exc # "ok" THEN [exc |-> r.exc, self |-> r.self, w |-> r.w]
    ELSE [exc |-> "ok",
          self |-> [r.self EXCEPT !.data.results =
                      Field(IF r.terms = <<>> THEN <<>>
                            ELSE <<r.terms[Len(r.terms)]>>,
                            self.normalize_flag /\ r.terms # <<>>)],
          w |-> r.w])
\* Surface.eval()
SurfaceEval(self, w) ==
  Let(EvalSources(self, w, self.sources \o self.reflected, <<>>),
      LAMBDA r :
    IF r.exc # "ok" THEN [exc |-> r.exc, self |-> r.self, w |-> r.w]
    ELSE [exc |-> "ok",
          self |-> [r.self EXCEPT !.data.results =
                      Field(r.terms, self.normalize_flag /\ r.terms # <<>>)],
          w |-> r.w])

IsSurface == cls = "Surface"
SurfaceFrame == UNCHANGED <<cls, bw, wp, lw, call, tk>>

SourceInputs == {Ref(0), Str}
PosInputs ==
  {Str, Tuple0, Tuple1(IntVal(0)), Tuple(Str, IntVal(0)),
   Tuple(IntVal(0), Str), Tuple3(IntVal(0), IntVal(0), IntVal(0)),
   Tuple(IntVal(0), IntVal(0)), Tuple(IntVal(SurfaceSize), IntVal(0))}
BoundaryInputs ==
  {StrVal("transparent"), StrVal("free"), StrVal("fixed")}
  \cup {IntVal(n) : n \in 0..MaxDepth}

\* surface.add_source(source, pos)
SU_add_source ==
  /\ IsSurface
  /\ Len(sf.sources) < MaxSources
  /\ \E source \in SourceInputs, pos \in PosInputs :
       \E r \in {AddSource(sf, caller, source, pos)} :
           /\ sf' = r.self
           /\ caller' = r.w
           /\ ret' = Ret("add_source", r.exc, FALSE)
  /\ SurfaceFrame

\* surface.eval()
SU_eval ==
  /\ IsSurface
  /\ \E r \in {SurfaceEval(sf, caller)} :
         /\ sf' = r.self
         /\ caller' = r.w
         /\ ret' = Ret("eval", r.exc, TRUE)
  /\ SurfaceFrame

\* surface.boundary_condition = value
SU_set_boundary_condition ==
  /\ IsSurface
  /\ \E value \in BoundaryInputs :
       LET r == SetBoundaryCondition(sf, value)
       IN  sf' = r.self /\ ret' = Ret("set_boundary_condition", r.exc, FALSE)
  /\ UNCHANGED caller
  /\ SurfaceFrame

\* surface.normalize = flag
SU_set_normalize ==
  /\ IsSurface
  /\ \E flag \in BOOLEAN : sf' = [sf EXCEPT !.normalize_flag = flag]
  /\ ret' = Ret("set_normalize", "ok", FALSE)
  /\ UNCHANGED caller
  /\ SurfaceFrame

\* the caller gives its own Wavepacket another dispersion, or another
\* spatial step
CL_modify ==
  /\ IsSurface
  /\ \/ \E conf \in {"good", "bad"} : caller' = [caller EXCEPT !.conf = conf]
     \/ \E dx \in {None, IntVal(2)} : caller' = BW_SetDx(caller, dx).self
  /\ ret' = Ret("modify_source", "ok", FALSE)
  /\ UNCHANGED sf
  /\ SurfaceFrame

NextSurface ==
  \/ SU_add_source
  \/ SU_eval
  \/ SU_set_boundary_condition
  \/ SU_set_normalize
  \/ CL_modify

\* the argument lists offered to the constructor: fs, dx, size, time,
\* normalize, boundary
SurfaceInputs ==
  {<<ft[1], dx, Tuple(IntVal(L), IntVal(L)), ft[2], n, StrVal(b)>> :
     ft \in {<<IntVal(1000), Num(1, 100)>>,
             <<IntVal(1000), Tuple(IntVal(0), Num(1, 100))>>,
             <<IntVal(1), Num(5, 8)>>,
             <<IntVal(1), IntVal(1)>>},
     dx \in {IntVal(1), Num(1, 10)},
     L \in 1..SurfaceSize,
     n \in BOOLEAN,
     b \in {"transparent", "free"}}
SurfaceCalls == {[fn |-> "Surface", args |-> a, out |-> <<>>] :
                   a \in SurfaceInputs}

\* surface = Surface(fs, dx, size, time, None, normalize, boundary)
SU_init ==
  /\ IsFunctions
  /\ call.fn = "Surface"
  /\ ret.op = "init"
  /\ sf' = SurfaceNew(call.args[1], call.args[2], call.args[3],
                      call.args[4], call.args[5], call.args[6])
  /\ ret' = Ret("Surface", "ok", FALSE)
  /\ UNCHANGED <<cls, bw, wp, lw, call, caller, tk>>

NextFn ==
  \/ CW_complex_wave
  \/ SU_reflect_position
  \/ MB_reflect_position
  \/ SU_init

(***************************************************************************)
(* wavepacket (src/wavepacket.py), the stand-alone class                   *)
(*                                                                         *)
(* fs and dx are plain attributes; the other fields are set by methods.    *)
(* The dispersion function "bad" raises ZeroDivisionError when called.     *)
(***************************************************************************)
\* wavepacket(d1): every optional argument at its default
LegacyInit ==
  [fs |-> None,
   dx |-> None,
   dt |-> None,
   data |-> None,
   period |-> None,
   time |-> None,
   length |-> None,
   space |-> None,
   normalize_flag |-> TRUE,
   disprel |-> List(<<Fn("d1")>>),
   spectrum |-> None]

\* wavepacket.set_space
LW_SetSpace(self, L) ==
  IF IsNone(L)
  THEN [exc |-> "ok", self |-> [self EXCEPT !.space = None, !.length = None]]
  ELSE LET len == IF IsTuple(L) THEN L ELSE Tuple(IntVal(0), L)
       IN  [exc |-> "ok",
            self |-> [self EXCEPT
                        !.length = len,
                        !.space = IF IsNone(self.dx) THEN None
                                  ELSE Array(Arange(len[2], len[3],
                                                    self.dx))]]

\* wavepacket.set_time
LW_SetTime(self, T) ==
  IF IsNone(T)
  THEN [exc |-> "ok", self |-> [self EXCEPT !.time = None, !.period = None]]
  ELSE LET per == IF IsTuple(T) THEN T ELSE Tuple(IntVal(0), T)
           o1 == [self EXCEPT !.time = None, !.period = per]
           dt == Div(IntVal(1), self.fs)
       IN  IF IsNone(self.fs) THEN [exc |-> "ok", self |-> o1]
           ELSE IF IsZero(self.fs)
           THEN [exc |-> "ZeroDivisionError", self |-> o1]
           ELSE [exc |-> "ok",
                 self |-> [o1 EXCEPT
                             !.dt = dt,
                             !.time = Array(Arange(per[2], per[3], dt))]]

\* wavepacket.set_dispersion
LW_SetDispersion(self, disprels) ==
  LET ds == IF IsIterable(disprels) THEN disprels ELSE List(<<disprels>>)
      es == Elements(ds)
  IN  IF \E i \in 1..Len(es) : ~IsCallable(es[i])
      THEN [exc |-> "TypeError", self |-> self]
      ELSE [exc |-> "ok", self |-> [self EXCEPT !.disprel = ds]]

\* calling the dispersion function d raises
Raises(d) == d = Fn("bad")

\* wavepacket.set_spectrum
LW_SetSpectrum(self, freqs) ==
  LET set == [exc |-> "ok", self |-> [self EXCEPT !.spectrum = freqs]]
      raise(e) == [exc |-> e, self |-> self]
      ds == Elements(self.disprel)
  IN  IF IsNone(freqs) THEN set
      ELSE IF ~IsIterable(freqs) THEN raise("TypeError")
      ELSE IF IsNone(self.dx) \/ IsNone(self.fs) THEN set
      ELSE IF IsNone(self.dt)
      THEN \* cfl = self.dx / self.dt
           raise("TypeError")
      ELSE IF Elements(freqs) # <<>> /\ \E i \in 1..Len(ds) : Raises(ds[i])
      THEN \* f/d(f)
           raise("ZeroDivisionError")
      ELSE set

\* the pairs (f, d) in the order the two loops of eval visit them
RECURSIVE LW_Pairs(_, _)
LW_Pairs(fs, ds) ==
  IF fs = <<>> THEN <<>>
  ELSE [i \in 1..Len(ds) |-> <<Head(fs), ds[i]>>] \o LW_Pairs(Tail(fs), ds)

\* the pairs whose waves are added before a dispersion function raises, or
\* the loops end
RECURSIVE LW_Added(_)
LW_Added(pairs) ==
  IF pairs = <<>> \/ Raises(Head(pairs)[2]) THEN <<>>
  ELSE <<Head(pairs)>> \o LW_Added(Tail(pairs))

\* 0 plus the waves of the pairs on the grid time x space
LW_Sum(terms, time, space) ==
  IF terms = <<>> THEN IntVal(0) ELSE <<"sum", terms, time, space>>

\* wavepacket.eval
LW_Eval(self) ==
  IF \/ IsNone(self.fs) \/ IsNone(self.time)
     \/ IsNone(self.dx) \/ IsNone(self.space)
  THEN [exc |-> "ValueError", self |-> self]
  ELSE IF IsNone(self.spectrum)
  THEN \* self.__data = 0, then `for f in None`
       [exc |-> "TypeError", self |-> [self EXCEPT !.data = IntVal(0)]]
  ELSE
    LET pairs == LW_Pairs(Elements(self.spectrum), Elements(self.disprel))
        terms == LW_Added(pairs)
        data == LW_Sum(terms, self.time, self.space)
        o1 == [self EXCEPT !.data = data]
    IN  IF terms # pairs THEN [exc |-> "ZeroDivisionError", self |-> o1]
        ELSE IF ~self.normalize_flag THEN [exc |-> "ok", self |-> o1]
        ELSE IF terms = <<>>
        THEN \* 0 / numpy.max(numpy.abs(0))
             [exc |-> "ok", self |-> [self EXCEPT !.data = <<"nan">>]]
        ELSE IF self.time[2] = <<>> \/ self.space[2] = <<>>
        THEN \* numpy.max of a zero-size array
             [exc |-> "ValueError", self |-> o1]
        ELSE [exc |-> "ok",
              self |-> [self EXCEPT !.data = <<"normalized", data>>]]

\* wavepacket.get_complex_data
LW_GetComplexData(self) ==
  IF IsNone(self.data) THEN LW_Eval(self)
  ELSE [exc |-> "ok", self |-> self]

IsLegacy == cls = "wavepacket"
LegacyFrame == UNCHANGED <<cls, bw, wp, call, sf, caller, tk>>

LW_FsInputs == {None, IntVal(1)}
LW_DxInputs == {None, IntVal(1)}
LW_TimeInputs == {None, IntVal(1), Tuple(IntVal(1), IntVal(1))}
LW_SpaceInputs == {None, IntVal(1)}
LW_DisprelInputs ==
  {None, Fn("d1"), Fn("bad"), List(<<Fn("d1"), Fn("bad")>>)}
LW_SpectrumInputs == {None, IntVal(100), List(<<>>), List(<<IntVal(100)>>)}

\* w.fs = fs
LW_set_fs ==
  /\ IsLegacy
  /\ \E fs \in LW_FsInputs : lw' = [lw EXCEPT !.fs = fs]
  /\ ret' = Ret("set_fs", "ok", FALSE)
  /\ LegacyFrame

\* w.dx = dx
LW_set_dx ==
  /\ IsLegacy
  /\ \E dx \in LW_DxInputs : lw' = [lw EXCEPT !.dx = dx]
  /\ ret' = Ret("set_dx", "ok", FALSE)
  /\ LegacyFrame

\* w.set_time(T)
LW_set_time ==
  /\ IsLegacy
  /\ \E T \in LW_TimeInputs :
       LET r == LW_SetTime(lw, T)
       IN  lw' = r.self /\ ret' = Ret("set_time", r.exc, FALSE)
  /\ LegacyFrame

\* w.set_space(L)
LW_set_space ==
  /\ IsLegacy
  /\ \E L \in LW_SpaceInputs :
       LET r == LW_SetSpace(lw, L)
       IN  lw' = r.self /\ ret' = Ret("set_space", r.exc, FALSE)
  /\ LegacyFrame

\* w.set_dispersion(disprels)
LW_set_dispersion ==
  /\ IsLegacy
  /\ \E d \in LW_DisprelInputs :
       LET r == LW_SetDispersion(lw, d)
       IN  lw' = r.self /\ ret' = Ret("set_dispersion", r.exc, FALSE)
  /\ LegacyFrame

\* w.set_spectrum(freqs)
LW_set_spectrum ==
  /\ IsLegacy
  /\ \E freqs \in LW_SpectrumInputs :
       LET r == LW_SetSpectrum(lw, freqs)
       IN  lw' = r.self /\ ret' = Ret("set_spectrum", r.exc, FALSE)
  /\ LegacyFrame

\* w.eval()
LW_eval ==
  /\ IsLegacy
  /\ LET r == LW_Eval(lw)
     IN  lw' = r.self /\ ret' = Ret("eval", r.exc, TRUE)
  /\ LegacyFrame

\* w.get_complex_data()
LW_get_complex_data ==
  /\ IsLegacy
  /\ LET r == LW_GetComplexData(lw)
     IN  lw' = r.self /\ ret' = Ret("get_complex_data", r.exc, FALSE)
  /\ LegacyFrame

NextLegacy ==
  \/ LW_set_fs
  \/ LW_set_dx
  \/ LW_set_time
  \/ LW_set_space
  \/ LW_set_dispersion
  \/ LW_set_spectrum
  \/ LW_eval
  \/ LW_get_complex_data

(***************************************************************************)
(* Task (src/asdl/ni/__init__.py)                                          *)
(*                                                                         *)
(* write_task and read_task are objects of the vendor's driver: what a     *)
(* call on one of them does is chosen by the environment.                  *)
(***************************************************************************)
\* what a call on a nidaqmx.Task does: it returns, it raises DaqError with
\* an error code, or it returns after issuing a warning of some category
Returned == <<"returned">>
DaqError(code) == <<"DaqError", code>>
Warned(category) == <<"warning", category>>
IsError(o) == o[1] = "DaqError"
IsWarning(o) == o[1] = "warning"
\* nidaqmx.error_codes.DAQmxErrors.INVALID_TASK
INVALID_TASK == <<"code", "INVALID_TASK">>
\* some other member of DAQmxErrors
OTHER_CODE == <<"code", "OTHER">>

\* the exception types Task hands to _catch_excpetions: the builtin class
\* each derives from, and its name
DaqErrorType == [base |-> "Exception", name |-> "DaqError"]
DaqResourceWarningType == [base |-> "Warning", name |-> "DaqResourceWarning"]

\* Task.__init__; log holds the calls made on the two tasks since then, in
\* order, last counts those the latest method made, reissued holds the
\* warnings that method issued again and raised the exception it raised
MaxCalls == 2
TaskInit ==
  [log |-> <<>>, last |-> 0, reissued |-> <<>>, raised |-> None, n |-> 0]

\* the Exception branch of _catch_excpetions from funcs[i] on, count the
\* errors caught so far; env gives what a call on each task does
RECURSIVE CatchErrors(_, _, _, _, _, _)
CatchErrors(funcs, env, i, count, except_code, qtde) ==
  IF i > Len(funcs)
  THEN [called |-> Len(funcs), raised |-> None, reissued |-> <<>>]
  ELSE
    LET e == env[funcs[i].task]
    IN  IF ~IsError(e)
        THEN CatchErrors(funcs, env, i + 1, count, except_code, qtde)
        ELSE IF ~IsNone(except_code) /\ e[2] # except_code
        THEN [called |-> i, raised |-> e, reissued |-> <<>>]
        ELSE IF count + 1 > qtde
        THEN [called |-> i, raised |-> e, reissued |-> <<>>]
        ELSE CatchErrors(funcs, env, i + 1, count + 1, except_code, qtde)

\* the second loop of the Warning branch over the warnings recorded: the
\* warnings issued again
RECURSIVE Reissue(_, _, _, _)
Reissue(caught, count, except_type, qtde) ==
  IF caught = <<>> THEN <<>>
  ELSE IF Head(caught)[2] = except_type.name
  THEN IF count + 1 > qtde THEN <<Head(caught)>>
       ELSE Reissue(Tail(caught), count + 1, except_type, qtde)
  ELSE <<Head(caught)>> \o Reissue(Tail(caught), count, except_type, qtde)

\* the Warning branch of _catch_excpetions: every function is called inside
\* catch_warnings; an exception leaves the block at once
CatchWarnings(funcs, env, except_type, qtde) ==
  LET outs == [i \in 1..Len(funcs) |-> env[funcs[i].task]]
      errors == {i \in 1..Len(funcs) : IsError(outs[i])}
      first == CHOOSE i \in errors : \A j \in errors : i <= j
  IN  IF errors # {}
      THEN [called |-> first, raised |-> outs[first], reissued |-> <<>>]
      ELSE [called |-> Len(funcs), raised |-> None,
            reissued |-> Reissue(SelectSeq(outs, IsWarning), 0,
                                 except_type, qtde)]

\* _catch_excpetions(funcs, except_type, except_code, qtde): how many of
\* funcs were called, the exception raised and the warnings issued again
CatchExcpetions(funcs, env, except_type, except_code, qtde) ==
  IF except_type.base = "Warning"
  THEN CatchWarnings(funcs, env, except_type, qtde)
  ELSE IF except_type.base = "Exception"
  THEN CatchErrors(funcs, env, 1, 0, except_code, qtde)
  ELSE [called |-> 0, raised |-> <<"TypeError">>, reissued |-> <<>>]

\* [self.write_task.op, self.read_task.op]
Funcs(op) == <<[task |-> "write", op |-> op], [task |-> "read", op |-> op]>>

\* Task.close
TaskClose(env) ==
  CatchExcpetions(Funcs("close"), env, DaqResourceWarningType, None, 2)
\* a start that tolerates no error
TaskStartIntolerant(env) ==
  CatchExcpetions(Funcs("start"), env, DaqErrorType, INVALID_TASK, 0)
\* Task.start
TaskStart(env) ==
  CatchExcpetions(Funcs("start"), env, DaqErrorType, INVALID_TASK, 1)
\* Task.stop
TaskStop(env) ==
  CatchExcpetions(Funcs("stop"), env, DaqErrorType, INVALID_TASK, 1)

IsTask == cls = "Task"
TaskFrame == UNCHANGED <<cls, bw, wp, lw, call, sf, caller>>

\* what the driver may do on start and stop, and on close
RunOutcomes == {Returned, DaqError(INVALID_TASK), DaqError(OTHER_CODE)}
CloseOutcomes ==
  {Returned, Warned("DaqResourceWarning"), Warned("UserWarning"),
   DaqError(INVALID_TASK)}
Environments(outcomes) == [{"write", "read"} -> outcomes]

\* the Task after a method that made the calls r.called of Funcs(op)
Called(self, op, env, r) ==
  [log |-> self.log \o
             [i \in 1..r.called |->
                [task |-> Funcs(op)[i].task, op |-> op,
                 out |-> env[Funcs(op)[i].task]]],
   last |-> r.called,
   reissued |-> r.reissued,
   raised |-> r.raised,
   n |-> self.n + 1]
Raised(r) == IF IsNone(r.raised) THEN "ok" ELSE r.raised[1]

\* task.start()
TK_start ==
  /\ IsTask
  /\ tk.n < MaxCalls
  /\ \E env \in Environments(RunOutcomes) :
       \E r \in {TaskStart(env)} :
         /\ tk' = Called(tk, "start", env, r)
         /\ ret' = Ret("start", Raised(r), FALSE)
  /\ TaskFrame

\* task.stop()
TK_stop ==
  /\ IsTask
  /\ tk.n < MaxCalls
  /\ \E env \in Environments(RunOutcomes) :
       \E r \in {TaskStop(env)} :
         /\ tk' = Called(tk, "stop", env, r)
         /\ ret' = Ret("stop", Raised(r), FALSE)
  /\ TaskFrame

\* task.close()
TK_close ==
  /\ IsTask
  /\ tk.n < MaxCalls
  /\ \E env \in Environments(CloseOutcomes) :
       \E r \in {TaskClose(env)} :
         /\ tk' = Called(tk, "close", env, r)
         /\ ret' = Ret("close", Raised(r), FALSE)
  /\ TaskFrame

NextTask ==
  \/ TK_start
  \/ TK_stop
  \/ TK_close

(***************************************************************************)
(* Specifications                                                          *)
(***************************************************************************)
InitOf(c) ==
  /\ cls = c
  /\ bw = BaseWaveInit
  /\ wp = WavepacketInit
  /\ lw = LegacyInit
  /\ call = NoCall
  /\ sf = SurfaceInit(StrVal("transparent"))
  /\ caller = SourceInit("good")
  /\ tk = TaskInit
  /\ ret = Ret("init", "ok", FALSE)

\* a BaseWave-derived object
InitBase == InitOf("BaseWave")
SpecBase == InitBase /\ [][NextBase]_vars

\* a Wavepacket
InitWP == InitOf("Wavepacket")
SpecWP == InitWP /\ [][NextWP]_vars

\* the module-level functions
InitFn ==
  /\ cls = "functions"
  /\ bw = BaseWaveInit
  /\ wp = WavepacketInit
  /\ lw = LegacyInit
  /\ call \in PendingCalls \cup SurfaceCalls
  /\ sf = SurfaceInit(StrVal("transparent"))
  /\ caller = SourceInit("good")
  /\ tk = TaskInit
  /\ ret = Ret("init", "ok", FALSE)
SpecFn == InitFn /\ [][NextFn]_vars

\* a Surface and the Wavepacket its caller adds to it
InitSurface == InitOf("Surface")
SpecSurface == InitSurface /\ [][NextSurface]_vars

\* a stand-alone wavepacket
InitLegacy == InitOf("wavepacket")
SpecLegacy == InitLegacy /\ [][NextLegacy]_vars

\* a Task
InitTask == InitOf("Task")
SpecTask == InitTask /\ [][NextTask]_vars

\* an object of one of the classes, or the module-level functions
Init ==
  InitBase \/ InitWP \/ InitFn \/ InitSurface \/ InitLegacy \/ InitTask
Next ==
  NextBase \/ NextWP \/ NextFn \/ NextSurface \/ NextLegacy \/ NextTask
Spec == Init /\ [][Next]_vars

(***************************************************************************)
(* Claims                                                                  *)
(***************************************************************************)
Flags == {"time", "space"}
StepOf(self, flag) == IF flag = "time" THEN self.steps[2] ELSE self.steps[3]
LimsOf(self, flag) == IF flag = "time" THEN self.tlim ELSE self.xlim
CacheOf(self, flag) == IF flag = "time" THEN self.data.time ELSE self.data.domain

\* C1: a call of the discretizer that directly follows a call with the same
\* flag that returned normally (so step and boundary were not assigned in
\* between) returns normally, without regenerating, the sequence the first
\* call returned.
C1_SecondCallCached ==
  [][(IsBase /\ ret.op \in Flags /\ ret.exc = "ok" /\ ret'.op = ret.op)
       => /\ ret'.exc = "ok"
          /\ ~ret'.fresh
          /\ CacheOf(bw', ret.op) = CacheOf(bw, ret.op)]_vars

\* a step or a boundary that holds no value
IsUnset(v) == IsNone(v) \/ v = Absent

\* C2: a call of the discretizer whose step or boundary is unset raises
\* ValueError and leaves every field, the cache and the boundary among them,
\* as it was.
C2_UnsetRaisesValueError ==
  [][(IsBase /\ ret'.op \in Flags
        /\ (IsUnset(StepOf(bw, ret'.op)) \/ IsUnset(LimsOf(bw, ret'.op))))
       => (ret'.exc = "ValueError" /\ bw' = bw)]_vars

FsDtConsistent(self) ==
  \/ IsNone(self.steps[1]) /\ IsNone(self.steps[2])
  \/ /\ IsNumber(self.steps[1]) /\ IsNumber(self.steps[2])
     /\ ~IsZero(self.steps[1])
     /\ self.steps[2] = Div(IntVal(1), self.steps[1])

\* the step is the assignment r = (exception, object) of setter op
StepIs(op, r, before, after) ==
  /\ ret'.op = op
  /\ ret'.exc = r.exc
  /\ after = r.self

\* C3: fs and dt are both unset, or both set with dt = 1/fs, after every
\* assignment to either; and assigning None to either completes without
\* error and leaves both unset.
C3_FsDtMutuallyDerived ==
  [][IsBase =>
       /\ FsDtConsistent(bw')
       /\ (StepIs("set_fs", BW_SetFs(bw, None), bw, bw') \/
           StepIs("set_dt", BW_SetDt(bw, None), bw, bw'))
            => /\ ret'.exc = "ok"
               /\ IsNone(bw'.steps[1]) /\ IsNone(bw'.steps[2])]_vars

\* the pair a time boundary T is to be stored as
TimePair(T) == IF IsTuple(T) THEN T ELSE Tuple(IntVal(0), T)

\* C4: assigning a number T to Wavepacket.time stores (0, T) and assigning a
\* pair (a, b) stores (a, b).
C4_TimeStoresPair ==
  [][\A T \in WP_TimeInputs \ {None} :
       (IsWP /\ ret'.op = "set_time" /\ wp' = WP_SetTime(wp, T))
         => wp'.tlim = TimePair(T)]_vars

WP_Unset(self) ==
  IsNone(self.dt) \/ IsNone(self.dx) \/ IsNone(self.tlim) \/ IsNone(self.xlim)

\* C5: Wavepacket.eval() called while the sampling frequency, the spatial
\* step, the time boundary or the space boundary is unset raises ValueError
\* and leaves the cached complex data as it was.
C5_EvalUnsetRaisesValueError ==
  [][(IsWP /\ ret'.op = "eval" /\ WP_Unset(wp))
       => (ret'.exc = "ValueError" /\ wp'.data.ys = wp.data.ys)]_vars

\* C6: after an assignment to a Wavepacket's time boundary, space boundary,
\* spatial step or sampling frequency the cached complex data is unset.
C6_SettersInvalidate ==
  (IsWP /\ ret.op \in {"set_time", "set_domain", "set_dx", "set_fs"}
        /\ ret.exc = "ok")
    => IsNone(wp.data.ys)

\* C7: get_data() runs eval() exactly when the cached complex data is unset;
\* on populated data it does not evaluate and changes no field.
C7_GetDataLazy ==
  [][(IsWP /\ ret'.op = "get_data")
       => IF IsNone(wp.data.ys)
          THEN /\ ret'.fresh
               /\ wp' = WP_Eval(wp).self
               /\ ret'.exc = WP_Eval(wp).exc
          ELSE /\ ~ret'.fresh
               /\ ret'.exc = "ok"
               /\ wp' = wp]_vars

\* get_data() returned populated data without evaluating
C7_Witness ==
  /\ IsWP
  /\ ret.op = "get_data"
  /\ ~ret.fresh
  /\ ~IsNone(wp.data.ys)

\* C8: purge_data() sets the cached result and the two cached sequences to
\* None and changes no other field, for a Wavepacket and for a BaseWave; a
\* second purge changes nothing.
C8_PurgeFrame ==
  [][(ret'.op = "purge_data")
       => /\ IsWP =>
               /\ wp'.data = [xs |-> None, ts |-> None, ys |-> None]
               /\ wp' = [wp EXCEPT !.data = wp'.data]
          /\ IsBase =>
               /\ bw'.data = [domain |-> None, time |-> None, results |-> None]
               /\ bw' = [bw EXCEPT !.data = bw'.data]
          /\ ret.op = "purge_data" => (wp' = wp /\ bw' = bw)]_vars

\* a fully configured Wavepacket was purged and kept its configuration
C8_Witness ==
  /\ IsWP
  /\ ret.op = "purge_data"
  /\ ~WP_Unset(wp)
  /\ wp.freq_spectrum # <<>>
  /\ wp.disprel # <<>>
  /\ IsCallable(wp.envelope_func)
  /\ wp.data = [xs |-> None, ts |-> None, ys |-> None]

\* C9: A.merge(B) appends B's spectrum to A's spectrum and B's dispersion
\* list to A's, in order, and leaves A's cached data as it was.
C9_MergeConcatenates ==
  [][(IsWP /\ ret'.op = "merge")
       => /\ ret'.exc = "ok"
          /\ wp'.freq_spectrum = wp.freq_spectrum \o OtherWP.freq_spectrum
          /\ wp'.disprel = wp.disprel \o OtherWP.disprel
          /\ wp'.data = wp.data]_vars

\* the elements a dispersion input d is iterated as
DisprelElements(d) == IF IsIterable(d) THEN Elements(d) ELSE <<d>>
AllCallable(seq) == \A i \in 1..Len(seq) : IsCallable(seq[i])
SetsDispersion(d) ==
  IsWP /\ ret'.op = "set_dispersion" /\ StepIs("set_dispersion",
                                                WP_SetDispersion(wp, d),
                                                wp, wp')

WP_Configured(self) ==
  /\ ~WP_Unset(self)
  /\ IsNumber(self.tlim[2]) /\ IsNumber(self.tlim[3])

\* C11: eval() of a fully configured Wavepacket whose spectrum is empty
\* raises nothing and stores an all-zero result, whatever the normalize
\* flag and the envelope are.
C11_EmptySpectrumEvaluates ==
  [][(IsWP /\ ret'.op = "eval" /\ WP_Configured(wp)
        /\ wp.freq_spectrum = <<>>)
       => (ret'.exc = "ok" /\ wp'.data.ys = IntVal(0))]_vars

\* the phase of complex_wave at (ts[i], xs[j]), in turns
PhaseAt(c, i, j) ==
  Sub(Mul(Apply(c.args[1], c.args[2]), c.args[3][j]),
      Mul(c.args[2], c.args[4][i]))

\* C12: entry [i, j] of complex_wave(d, f, xs, ts) is 0 exactly when the
\* phase k*xs[j] - w*ts[i] is strictly positive and has magnitude 1
\* otherwise; for d(f) = f/c with f > 0 and c > 0, at t = 0 the entry at
\* x = 0 is 1 and the entry at every x > 0 is 0.
C12_CausalMask ==
  ret.op = "complex_wave" =>
    \A i \in 1..Len(call.args[4]), j \in 1..Len(call.args[3]) :
      LET u == call.out[i][j]
          x == call.args[3][j]
          t == call.args[4][i]
      IN  /\ (u[2] = 0) <=> Lt(IntVal(0), PhaseAt(call, i, j))
          /\ u[2] \in {0, 1}
          /\ (call.args[1][2] \in {"d1", "d2"} /\ Lt(IntVal(0), call.args[2])
                /\ IsZero(t))
               => /\ IsZero(x) => u = Complex(1, IntVal(0))
                  /\ Lt(IntVal(0), x) => u = Complex(0, IntVal(0))

\* complex_wave was called with d(f) = f/2, f > 0, and the grid holds t = 0
\* with both x = 0 and a position x > 0
C12_Witness ==
  /\ ret.op = "complex_wave"
  /\ call.args[1] = Fn("d2")
  /\ Lt(IntVal(0), call.args[2])
  /\ \E i \in 1..Len(call.args[4]) : IsZero(call.args[4][i])
  /\ \E j \in 1..Len(call.args[3]) : IsZero(call.args[3][j])
  /\ \E j \in 1..Len(call.args[3]) : Lt(IntVal(0), call.args[3][j])
  /\ \E i \in 1..Len(call.args[4]), j \in 1..Len(call.args[3]) :
       call.out[i][j][2] = 1 /\ ~IsZero(call.out[i][j][3])

\* how many of the four edges the position pos lies strictly beyond
EdgesBeyond(Dx, Dy, pos) ==
  (IF Lt(Dx, pos[2]) \/ Lt(pos[2], Neg(Dx)) THEN 1 ELSE 0)
  + (IF Lt(Dy, pos[3]) \/ Lt(pos[3], Neg(Dy)) THEN 1 ELSE 0)
StrictlyInside(Dx, Dy, pos) ==
  /\ Lt(Neg(Dx), pos[2]) /\ Lt(pos[2], Dx)
  /\ Lt(Neg(Dy), pos[3]) /\ Lt(pos[3], Dy)
\* each coordinate is inside the span of its axis, ends included, or
\* strictly beyond it: on an edge line counts as within the span
IsSurfaceCall == call.fn = "Surface._reflect_position" /\ ret.op = "reflect_position"
IsMembraneCall == call.fn = "Membrane.__reflect_position" /\ ret.op = "reflect_position"

\* C16: Surface._reflect_position returns 4 images for a position strictly
\* inside the rectangle, 3 for a position strictly beyond exactly one edge
\* and within the span of the other axis, and 2 for a position strictly
\* beyond two edges.
C16_ImageCounts ==
  IsSurfaceCall =>
    LET Dx == call.args[1]
        Dy == call.args[2]
        pos == call.args[3]
    IN  /\ StrictlyInside(Dx, Dy, pos) => Len(call.out) = 4
        /\ EdgesBeyond(Dx, Dy, pos) = 1 => Len(call.out) = 3
        /\ EdgesBeyond(Dx, Dy, pos) = 2 => Len(call.out) = 2

\* C17: Surface._reflect_position returns a list of images for every
\* position, those on an edge or a corner included, and never raises.
C17_SurfaceClassifierTotal ==
  IsSurfaceCall => (ret.exc = "ok" /\ Len(call.out) \in 2..4)

\* the classifier of Surface took a corner of the rectangle
C17_Witness ==
  /\ IsSurfaceCall
  /\ call.args[3] = Tuple(call.args[1], Neg(call.args[2]))
  /\ ret.exc = "ok"
  /\ Len(call.out) = 3

\* C18: Membrane.__reflect_position returns a list of images for every
\* position, those on an edge or a corner included, and never raises.
C18_MembraneClassifierTotal ==
  IsMembraneCall => (ret.exc = "ok" /\ Len(call.out) \in 2..4)


\* the step is surface.add_source(source, pos)
IsAddSource(source, pos) ==
  /\ IsSurface
  /\ ret'.op = "add_source"
  /\ LET r == AddSource(sf, caller, source, pos)
     IN  sf' = r.self /\ caller' = r.w /\ ret'.exc = r.exc
\* source is a Wavepacket and pos a tuple of exactly two numbers
ValidSource(source, pos) ==
  /\ IsRef(source)
  /\ IsTuple(pos)
  /\ IsNumber(pos[2])
  /\ IsNumber(pos[3])

\* C13: add_source raises TypeError whenever source is not a Wavepacket or
\* pos is not a tuple of exactly two numbers (tuples of length 1 or 3
\* included), and then leaves sources and reflected_sources unchanged
C13_InvalidSourceRaisesTypeError ==
  [][\A source \in SourceInputs, pos \in PosInputs :
       (IsAddSource(source, pos) /\ ~ValidSource(source, pos))
         => /\ ret'.exc = "TypeError"
            /\ sf'.sources = sf.sources
            /\ sf'.reflected = sf.reflected]_vars


\* the entries of sources and reflected_sources, in order
Stored(self) == self.sources \o self.reflected
\* the Wavepacket objects the entries of self hold, in order
StoredObjects(self, w) ==
  [i \in 1..Len(Stored(self)) |-> Deref(self, w, Stored(self)[i].src)]

GenerationCount(boundary) ==
  IF boundary = StrVal("transparent") THEN 0
  ELSE IF boundary = StrVal("free") THEN 1
  ELSE boundary[2]
\* the images of g generations, in order: the images of every position of
\* last, then the images of those, and so on
RECURSIVE ImageGenerations(_, _, _, _)
ImageGenerations(Dx, Dy, last, g) ==
  IF g <= 0 THEN <<>>
  ELSE LET nxt == ReflectAll(Dx, Dy, last).val
       IN  nxt \o ImageGenerations(Dx, Dy, nxt, g - 1)
\* the positions of the entries of a source list
Positions(entries) == [i \in 1..Len(entries) |-> entries[i].pos]

\* C15: one add_source call appends to reflected_sources the images of
\* exactly g generations: g = 0 for 'transparent', 1 for 'free' and n for
\* the integer n
C15_GenerationsAppended ==
  [][\A source \in SourceInputs, pos \in PosInputs :
       (IsAddSource(source, pos) /\ ValidSource(source, pos)
          /\ ret'.exc = "ok")
         => Positions(sf'.reflected)
              = Positions(sf.reflected)
                \o ImageGenerations(sf.xylims[2][3], sf.xylims[3][3],
                                    <<pos>>, GenerationCount(sf.boundary))
    ]_vars


C20_FailedEvalKeepsResults ==
  [][(ret'.op = "eval" /\ ret'.exc # "ok")
       => /\ IsSurface => sf'.data.results = sf.data.results
          /\ IsWP => wp'.data.ys = wp.data.ys
          /\ IsLegacy => lw'.data = lw.data]_vars


\* the positions add_source stores as images of the entries of sources
\* under the boundary condition of self, entry by entry
RECURSIVE ImagesOfSources(_, _)
ImagesOfSources(self, entries) ==
  IF entries = <<>> THEN <<>>
  ELSE ImageGenerations(self.xylims[2][3], self.xylims[3][3],
                        <<Head(entries).pos>>,
                        GenerationCount(self.boundary))
       \o ImagesOfSources(self, Tail(entries))

\* C23: after any add_source calls and boundary_condition assignments,
\* reflected_sources holds exactly the images of the entries of sources
\* under the current boundary_condition; it is empty under 'transparent'
C23_ReflectedFollowsBoundary ==
  IsSurface =>
    /\ sf.boundary = StrVal("transparent") => sf.reflected = <<>>
    /\ (\A i \in 1..Len(sf.sources) : IsTuple(sf.sources[i].pos))
         => Positions(sf.reflected) = ImagesOfSources(sf, sf.sources)


\* the regions whose condition the position of the call satisfies
RegionsOfCall ==
  {k \in 0..8 : RegionCondition(k, call.args[1], call.args[2],
                                call.args[3][2], call.args[3][3])}

\* C27: the nine region conditions of Surface._reflect_position are
\* pairwise disjoint: every position, edges and corners included, satisfies
\* the condition of exactly one region
C27_RegionsDisjoint ==
  IsSurfaceCall => Cardinality(RegionsOfCall) = 1


\* the position pos lies outside the open rectangle (-Dx, Dx) x (-Dy, Dy)
OutsideOpen(Dx, Dy, pos) == ~StrictlyInside(Dx, Dy, pos)

\* C30: every image position the classifier of Surface produces, for any
\* starting position, lies outside the open rectangle: no image is placed
\* strictly inside the surface
C30_ImagesOutside ==
  IsSurfaceCall =>
    \A i \in 1..Len(call.out) :
      OutsideOpen(call.args[1], call.args[2], call.out[i])
\* the classifier reflected a position that is itself an image (beyond an
\* edge) and returned images
C30_Witness ==
  /\ IsSurfaceCall
  /\ EdgesBeyond(call.args[1], call.args[2], call.args[3]) = 1
  /\ Len(call.out) = 3


\* the elements of the sequence seq are pairwise distinct
Distinct(seq) == \A i, j \in 1..Len(seq) : i # j => seq[i] # seq[j]

\* C29: the image positions one add_source call appends to
\* reflected_sources are pairwise distinct, whatever the integer depth
C29_ImagesDistinct ==
  [][(IsSurface /\ ret'.op = "add_source" /\ ret'.exc = "ok"
        /\ IsNumber(sf.boundary))
       => Distinct(SubSeq(Positions(sf'.reflected),
                          Len(sf.reflected) + 1, Len(sf'.reflected)))]_vars


\* C28: a spectrum or dispersion assignment of a Wavepacket that raises
\* TypeError leaves the spectrum and dispersion lists as they were
C28_FailedSetterKeepsList ==
  [][(IsWP /\ ret'.op \in {"set_spectrum", "set_dispersion"}
        /\ ret'.exc = "TypeError")
       => /\ wp'.freq_spectrum = wp.freq_spectrum
          /\ wp'.disprel = wp.disprel]_vars


\* the points b0 + k*s, k = 0, 1, ..., that lie below b1 + s/4
MaxPoints == 16
PointsBelowPad(b0, b1, s) ==
  LET K == {k \in 0..MaxPoints :
              Lt(Add(b0, Mul(IntVal(k), s)), Add(b1, Div(s, IntVal(4))))}
  IN  [i \in 1..Cardinality(K) |-> Add(b0, Mul(IntVal(i - 1), s))]

\* a regeneration by BaseWave._get_time_or_space gives the padded points
C25_BaseRegenerates ==
  (IsBase /\ ret'.op \in {"time", "space"} /\ ret'.exc = "ok" /\ ret'.fresh)
    => LET time == ret'.op = "time"
           lims == IF time THEN bw.tlim ELSE bw.xlim
           step == IF time THEN bw.steps[2] ELSE bw.steps[3]
           new == IF time THEN bw'.data.time ELSE bw'.data.domain
       IN  new = Array(PointsBelowPad(lims[2], lims[3], step))

\* a regeneration by Wavepacket.get_time and get_space, which eval calls,
\* gives the padded points
C25_WavepacketRegenerates ==
  (IsWP /\ ret'.op = "eval" /\ ret'.exc = "ok")
    => /\ wp'.data.ts = Array(PointsBelowPad(wp.tlim[2], wp.tlim[3], wp.dt))
       /\ wp'.data.xs = Array(PointsBelowPad(wp.xlim[2], wp.xlim[3], wp.dx))

\* C25: whenever a discretizer regenerates a sequence for the boundary
\* (b0, b1) and the step s, the sequence is exactly the points b0 + k*s
\* below b1 + s/4, so that it ends with b1 when b1 - b0 is a multiple of s
C25_RegeneratedPoints ==
  [][C25_BaseRegenerates /\ C25_WavepacketRegenerates]_vars
C25_BaseOnly == [][C25_BaseRegenerates]_vars


\* the time axis the Wavepacket obj evaluates over
TimeAxisOf(obj) == GetTimeOrSpace(obj, "time")

Built(args) ==
  IsFunctions /\ call.fn = "Surface" /\ ret.op = "Surface" /\ call.args = args
\* the surface after add_source(w, pos) and eval()
EvalWith(self, w, pos) ==
  LET a == AddSource(self, w, Ref(0), pos)
  IN  SurfaceEval(a.self, a.w)

\* C22: a Surface of size (1, 1), dx = 0.1, fs = 1000, time (0, 0.01) and
\* boundary 'transparent' with one source at (0, 0) has results of shape
\* (21, 21, 10) after eval
C22_EndToEndShape ==
  Built(<<IntVal(1000), Num(1, 10), Tuple(IntVal(1), IntVal(1)),
          Tuple(IntVal(0), Num(1, 100)), FALSE, StrVal("transparent")>>)
    => LET r == EvalWith(sf, caller, Tuple(IntVal(0), IntVal(0)))
       IN  /\ r.exc = "ok"
           /\ ~IsNone(r.self.data.results)
           /\ Shape(r.self) = <<21, 21, 10>>
C22_ShapeIs_9_9_11 ==
  Built(<<IntVal(1000), Num(1, 10), Tuple(IntVal(1), IntVal(1)),
          Tuple(IntVal(0), Num(1, 100)), FALSE, StrVal("transparent")>>)
    => LET r == EvalWith(sf, caller, Tuple(IntVal(0), IntVal(0)))
       IN  /\ r.exc = "ok"
           /\ ~IsNone(r.self.data.results)
           /\ Shape(r.self) = <<9, 9, 11>>


\* two Wavepackets that differ in spectrum and dispersion
SourceA == SourceInit("good")
SourceB == SourceInit("other")
\* the positions the two sources are put at
TwoSourcePositions ==
  {Tuple(IntVal(0), IntVal(0)), Tuple(IntVal(SurfaceSize), IntVal(0))}
\* the point-by-point sum of two fields that were not normalized
FieldSum(f, g) == Field(f[2] \o g[2], FALSE)
\* the surface after add_source(A, p1), add_source(B, p2) and eval()
EvalWithTwo(self, p1, p2) ==
  LET a == AddSource(self, SourceA, Ref(0), p1)
      b == AddSource(a.self, SourceB, Ref(0), p2)
  IN  SurfaceEval(b.self, b.w)
\* a Surface was built without normalization and with no reflection
BuiltPlain ==
  /\ IsFunctions /\ call.fn = "Surface" /\ ret.op = "Surface"
  /\ ~sf.normalize_flag
  /\ sf.boundary = StrVal("transparent")

LastCalls == SubSeq(tk.log, Len(tk.log) - tk.last + 1, Len(tk.log))
TaskMethods == {"start", "stop", "close"}
\* the failure a method tolerates: the error INVALID_TASK for start and
\* stop, the warning DaqResourceWarning for close
Tolerated(op) ==
  IF op = "close" THEN Warned("DaqResourceWarning")
  ELSE DaqError(INVALID_TASK)
\* the method called the write task first and then, if at all, the read
\* task, and called the read task after a tolerated failure of the first
WriteThenRead ==
  LET c == LastCalls
  IN  /\ Len(c) \in 1..2
      /\ c[1].task = "write"
      /\ Len(c) = 2 => c[2].task = "read"
      /\ \A i \in 1..Len(c) : c[i].op = ret.op
      /\ c[1].out = Tolerated(ret.op) => Len(c) = 2
\* an error with another code ends the method at once and reaches the
\* caller
OtherErrorRaised ==
  LET c == LastCalls
  IN  \A i \in 1..Len(c) :
        (IsError(c[i].out) /\ c[i].out # Tolerated(ret.op))
          => /\ Len(c) = i
             /\ tk.raised = c[i].out
             /\ ret.exc = "DaqError"
\* both calls of the method failed with the failure it tolerates
BothTolerated ==
  /\ Len(LastCalls) = 2
  /\ LastCalls[1].out = Tolerated(ret.op)
  /\ LastCalls[2].out = Tolerated(ret.op)

\* the statement with close included in its last part: a second tolerated
\* failure reaches the caller from start, stop and close alike
C24_SecondFailureRaised ==
  (IsTask /\ ret.op \in TaskMethods)
    => /\ WriteThenRead
       /\ OtherErrorRaised
       /\ BothTolerated => ret.exc # "ok"

\* C24: start, stop and close call the write task before the read task and
\* still call the read task when the write task fails with the tolerated
\* failure; an error with another code is raised at once; a second
\* INVALID_TASK error of start or stop is raised, while close lets the
\* warnings of both tasks pass without raising or issuing them again
C24_WriteBeforeRead ==
  (IsTask /\ ret.op \in TaskMethods)
    => /\ WriteThenRead
       /\ OtherErrorRaised
       /\ (BothTolerated /\ ret.op # "close")
            => (ret.exc = "DaqError" /\ tk.raised = LastCalls[2].out)
       /\ (BothTolerated /\ ret.op = "close")
            => (ret.exc = "ok" /\ tk.reissued = <<>>)
       /\ ret.exc = "ok"
            => \/ Len(LastCalls) = 2 /\ ~BothTolerated
               \/ ret.op = "close"
C24_Witness ==
  /\ IsTask
  /\ ret.op = "start" /\ ret.exc = "ok"
  /\ Len(LastCalls) = 2
  /\ LastCalls[1].out = DaqError(INVALID_TASK)
  /\ LastCalls[2].out = Returned

====
